---- MODULE Spec2Model ----
(***************************************************************************)
(* ATH scanner: the web server (src/app.py) that starts scans and tracks   *)
(* their progress in the global scan_status dict, and the scanner          *)
(* (src/scanner.py) it runs as a subprocess.                               *)
(*                                                                         *)
(* The module holds these specifications over one set of variables:        *)
(*   Spec          the web server: triggers, run_scan_background threads,  *)
(*                 the scanner subprocess seen through its log lines       *)
(*   FairSpec      Spec with threads and subprocesses that are scheduled   *)
(*   StatusSpec    Spec with clients polling GET /api/status               *)
(*   ScanSpec      run_scan: the ThreadPoolExecutor and the as_completed   *)
(*                 loop                                                    *)
(*   ScanFairSpec  ScanSpec with scheduling, some fetches never returning  *)
(*   MainSpec      main: run_scan, then save_results                       *)
(*   SaveSpec      save_results: the sorted report                         *)
(*   AthSpec       check_ath's classification of one price history         *)
(***************************************************************************)
EXTENDS Integers, Sequences, FiniteSets, TLC

\* ------------------------------------------------------------------ bounds
MaxManual  == 1      \* run_scan_background threads that POST /api/scan has started and
                     \* that have not returned (the scheduler's job adds one more)
MaxSymbols == 5      \* instruments in the list run_scan is given (ScanSpec)
MaxMatches == 3      \* records in the list save_results is given (SaveSpec)
MaxTail    == 2      \* rows that follow the uniform rows of a history (AthSpec)

\* ------------------------------------------------------- program constants
PROGRESS_EVERY    == 50  \* scanner.py:246  done % 50 == 0
MAX_WORKERS       == 4   \* scanner.py:19
ATH_THRESHOLD_PCT == 98  \* scanner.py:20   ATH_THRESHOLD = 0.98, in hundredths
MIN_ROWS          == 20  \* scanner.py:203  len(hist) < 20

VARIABLES
    scan_status,   \* app.py:23-30    the global status dict
    thread,        \* app.py:92-148   per execution of run_scan_background: where it is
    response,      \* POST /api/scan: "pending" while a request is being handled, then
                   \* the status code of the response ("none": no request yet)
    proc,          \* scanner.py:271-281  per subprocess: pc, total, done, ath
    pipe,          \* app.py:105-113  per subprocess: the unread lines of stdout that the reading
                   \*                  loop acts on (it skips every other line, app.py:115-136)
    data_file,     \* scanner.py:16   data/ath_results.json as the subprocess of Spec writes it
    symbols,       \* scanner.py:230  run_scan's argument
    submitted,     \* scanner.py:238  how many of symbols have been submitted to the executor
    fut,           \* scanner.py:238  per submitted instrument: the future's state, fetch and result
    done,          \* scanner.py:234  run_scan's completion counter
    ath_stocks,    \* scanner.py:233  the matches in arrival order
    run_pc,        \* scanner.py:230-253  where run_scan is
    total_scanned, \* scanner.py:256  save_results' second argument
    payload,       \* scanner.py:258-265  the report save_results writes
    stock,         \* scanner.py:192  check_ath's argument
    fetch,         \* scanner.py:199-201  what ticker.history() did for it
    result,        \* scanner.py:192-226  what check_ath returned
    snapshot       \* app.py:54-57    what GET /api/status answered last

appVars  == <<scan_status, thread, response, proc, pipe, data_file>>
scanVars == <<symbols, submitted, fut, done, run_pc>>
saveVars == <<ath_stocks, total_scanned, payload>>
athVars  == <<stock, fetch, result>>
vars     == <<appVars, scanVars, saveVars, athVars, snapshot>>

\* The executions of run_scan_background that can be under way: the
\* scheduler runs one instance of its job at a time (app.py:155-162,
\* add_job's default max_instances = 1), every accepted POST /api/scan
\* starts a thread of its own (app.py:65-67).
CronId    == 0
ManualIds == 1..MaxManual
ScanIds   == {CronId} \cup ManualIds

\* Spec: the list a subprocess loads is empty or holds one instrument.
ListSizes == {0, 1}

\* ------------------------------------------------------------- log lines
\* A line is its format, cut into literal pieces with "#" for a formatted
\* value, together with the values in order.  "[star]" stands for the star
\* character and "--" for the dash of the source's literals.
Line(fmt, args) == [fmt |-> fmt, args |-> args]

\* scanner.py:272-274
BannerLine == Line(<<"ATH SCANNER STARTED">>, <<>>)
\* scanner.py:277
NoSymbolsLine == Line(<<"No symbols. Exiting.">>, <<>>)
\* scanner.py:231
ScanningLine(n) == Line(<<"Scanning ", "#", " symbols with yfinance...">>, <<n>>)
\* scanner.py:244
AthLine(sym) == Line(<<"[star] ATH: ", "#", " -- ", "#", " @ ", "#">>, <<sym, sym, 0>>)
\* scanner.py:250
ProgressLine(d, total, ath) ==
    Line(<<"Progress: ", "#", "/", "#", " (", "#", "%) | ", "ATH: ", "#", " | ETA: ", "#", "s">>,
         <<d, total, (d * 100) \div total, ath, 0>>)
\* scanner.py:252
DoneInLine(ath) == Line(<<"Done in ", "#", "s | ATH stocks: ", "#">>, <<0, ath>>)
\* scanner.py:268
SavedLine == Line(<<"Saved -> data/ath_results.json">>, <<>>)
\* scanner.py:281
DoneLine(ath, n) == Line(<<"DONE -- ", "#", " ATH stocks from ", "#", " scanned">>, <<ath, n>>)
\* an uncaught exception in the subprocess: the interpreter's traceback
TracebackLine == Line(<<"Traceback (most recent call last):">>, <<>>)

\* The number of "#" among the first i pieces of fmt: the index in args
\* of the value formatted at piece i.
RECURSIVE HolesUpTo(_, _)
HolesUpTo(fmt, i) ==
    IF i = 0 THEN 0
    ELSE HolesUpTo(fmt, i - 1) + (IF fmt[i] = "#" THEN 1 ELSE 0)

\* Whether the pieces pat occur in fmt starting at piece i.
OccursAt(fmt, pat, i) ==
    /\ i >= 1
    /\ i + Len(pat) - 1 <= Len(fmt)
    /\ \A k \in 1..Len(pat) : fmt[i + k - 1] = pat[k]

\* `'x' in line` (app.py:130, 135)
Contains(line, piece) == \E i \in 1..Len(line.fmt) : line.fmt[i] = piece

\* app.py:119  re.search(r'Progress: (\d+)/(\d+).*ATH found: (\d+)', line):
\* the places <<i, j>> where "Progress: #/#" and, after it, "ATH found: #" occur.
ProgressMatches(line) ==
    { ij \in (1..Len(line.fmt)) \X (1..Len(line.fmt)) :
        /\ OccursAt(line.fmt, <<"Progress: ", "#", "/", "#">>, ij[1])
        /\ ij[2] >= ij[1] + 4
        /\ OccursAt(line.fmt, <<"ATH found: ", "#">>, ij[2]) }

\* app.py:121  the three groups of the first match
ProgressGroups(line) ==
    LET ij == CHOOSE x \in ProgressMatches(line) :
                  \A y \in ProgressMatches(line) : x[1] <= y[1]
        j  == CHOOSE y \in { m[2] : m \in { m \in ProgressMatches(line) : m[1] = ij[1] } } :
                  \A z \in { m[2] : m \in { m \in ProgressMatches(line) : m[1] = ij[1] } } : y >= z
    IN  [done  |-> line.args[HolesUpTo(line.fmt, ij[1] + 1)],
         total |-> line.args[HolesUpTo(line.fmt, ij[1] + 3)],
         found |-> line.args[HolesUpTo(line.fmt, j + 1)]]

\* ------------------------------------------------------------- messages
Msg(text, n) == <<text, n>>

\* --------------------------------------------------------------- app.py
\* app.py:23-30
InitialStatus ==
    [running |-> FALSE, progress |-> 0, total |-> 0, found |-> 0,
     message |-> Msg("Idle", 0), started_at |-> 0]

\* ended: how main ended: "scanned" (it returned, scanner.py:278 or 281),
\* "crashed" (an exception left it), "" (it has not)
NoProc   == [pc |-> "none", total |-> 0, done |-> 0, ath |-> 0, ended |-> ""]
\* app.py:42-51  no data/ath_results.json yet
NoReport == [exists |-> FALSE, total_scanned |-> 0, ath_count |-> 0]

\* run_scan_background is executing
Executing(s) == thread[s] # "none"
\* the thread is in `for line in proc.stdout` (app.py:113-136)
Reading(s) == thread[s] \in {"read", "ath_msg"}
\* the scanner subprocess is alive
Alive(s) == proc[s].pc \in {"main", "scan"}
\* neither a thread nor a subprocess left over
Free(s) == thread[s] = "none" /\ proc[s].pc = "none"

\* A client sends POST /api/scan.
PostScan ==
    /\ response # "pending"
    /\ response' = "pending"
    /\ UNCHANGED <<scan_status, thread, proc, pipe, data_file>>
    /\ UNCHANGED <<scanVars, saveVars, athVars, snapshot>>

\* api_trigger_scan without the test of app.py:63-64
ApiTriggerScan_Unguarded ==
    /\ response = "pending"
    /\ \E s \in ManualIds :
          /\ Free(s)
          /\ \A t \in ManualIds : Free(t) => s <= t
          /\ thread' = [thread EXCEPT ![s] = "start"]
    /\ response' = "200"
    /\ UNCHANGED <<scan_status, proc, pipe, data_file>>
    /\ UNCHANGED <<scanVars, saveVars, athVars, snapshot>>

\* app.py:60-68  api_trigger_scan
ApiTriggerScan ==
    /\ response = "pending"
    /\ IF scan_status["running"]
       THEN /\ response' = "409"
            /\ UNCHANGED thread
       ELSE /\ \E s \in ManualIds :
                  /\ Free(s)
                  /\ \A t \in ManualIds : Free(t) => s <= t
                  /\ thread' = [thread EXCEPT ![s] = "start"]
            /\ response' = "200"
    /\ UNCHANGED <<scan_status, proc, pipe, data_file>>
    /\ UNCHANGED <<scanVars, saveVars, athVars, snapshot>>

\* app.py:152-165  the cron job "daily_ath_scan": the scheduler calls
\* run_scan_background itself, unless the job's previous run has not returned
CronTrigger ==
    /\ Free(CronId)
    /\ thread' = [thread EXCEPT ![CronId] = "start"]
    /\ UNCHANGED <<scan_status, response, proc, pipe, data_file>>
    /\ UNCHANGED <<scanVars, saveVars, athVars, snapshot>>

\* app.py:54-57  api_status: GET /api/status is answered with the dict as
\* it is at that moment
ApiStatus ==
    /\ snapshot' = <<scan_status>>
    /\ UNCHANGED <<appVars, scanVars, saveVars, athVars>>

\* app.py:100  datetime.now(IST).isoformat(): a time stamp (None is 0)
Now == 1

\* app.py:95-101
StartUpdate ==
    [scan_status EXCEPT !.running = TRUE, !.progress = 0, !.found = 0,
                        !.message = Msg("Starting scan...", 0), !.started_at = Now]

BeginScan(s) ==
    /\ thread[s] = "start"
    /\ scan_status' = StartUpdate
    /\ thread' = [thread EXCEPT ![s] = "popen"]
    /\ UNCHANGED <<response, proc, pipe, data_file>>
    /\ UNCHANGED <<scanVars, saveVars, athVars, snapshot>>

\* the except clause without the "running": False of app.py:148
ErrorUpdate_KeepsRunning ==
    [scan_status EXCEPT !.message = Msg("Error: #", 0)]

\* app.py:146-148  the except clause
ErrorUpdate ==
    [scan_status EXCEPT !.running = FALSE, !.message = Msg("Error: #", 0)]

\* app.py:105-111  subprocess.Popen starts scanner.py
Popen(s) ==
    /\ thread[s] = "popen"
    /\ thread' = [thread EXCEPT ![s] = "read"]
    /\ proc' = [proc EXCEPT ![s] = [pc |-> "main", total |-> 0, done |-> 0, ath |-> 0, ended |-> ""]]
    /\ UNCHANGED <<scan_status, response, pipe, data_file>>
    /\ UNCHANGED <<scanVars, saveVars, athVars, snapshot>>

\* app.py:103-148  an exception in the try block (Popen cannot start the
\* process, reading or decoding a line fails): the except clause runs and
\* run_scan_background returns.  A subprocess that was started runs on.
Raise(s) ==
    /\ thread[s] \in {"popen", "read"}
    /\ thread' = [thread EXCEPT ![s] = "none"]
    /\ scan_status' = ErrorUpdate
    /\ pipe' = [pipe EXCEPT ![s] = <<>>]
    /\ proc' = [proc EXCEPT ![s] = IF Alive(s) THEN proc[s] ELSE NoProc]
    /\ UNCHANGED <<response, data_file>>
    /\ UNCHANGED <<scanVars, saveVars, athVars, snapshot>>

\* app.py:122-127
ProgressUpdate(line) ==
    LET g == ProgressGroups(line)
    IN  [scan_status EXCEPT !.progress = g.done, !.total = g.total, !.found = g.found,
                            !.message = Msg("Scanning... #/# stocks", g.done)]

\* app.py:113-136  one iteration of `for line in proc.stdout`
ReadLine(s) ==
    /\ thread[s] = "read"
    /\ pipe[s] # <<>>
    /\ pipe' = [pipe EXCEPT ![s] = Tail(pipe[s])]
    /\ LET line == Head(pipe[s])
       IN  IF ProgressMatches(line) # {}
           THEN /\ scan_status' = ProgressUpdate(line)
                /\ UNCHANGED thread
           ELSE IF Contains(line, "[star] ATH: ")
           THEN /\ scan_status' = [scan_status EXCEPT !.found = scan_status["found"] + 1]
                /\ thread' = [thread EXCEPT ![s] = "ath_msg"]
           ELSE IF Contains(line, "DONE -- ")
           THEN /\ scan_status' = [scan_status EXCEPT
                                      !.message = Msg("DONE -- # ATH stocks from # scanned", line.args[1])]
                /\ UNCHANGED thread
           ELSE UNCHANGED <<scan_status, thread>>
    /\ UNCHANGED <<response, proc, data_file>>
    /\ UNCHANGED <<scanVars, saveVars, athVars, snapshot>>

\* app.py:132
AthMessage(s) ==
    /\ thread[s] = "ath_msg"
    /\ scan_status' = [scan_status EXCEPT !.message = Msg("# -- # @ #", 0)]
    /\ thread' = [thread EXCEPT ![s] = "read"]
    /\ UNCHANGED <<response, proc, pipe, data_file>>
    /\ UNCHANGED <<scanVars, saveVars, athVars, snapshot>>

\* app.py:139-143
CompleteUpdate ==
    [scan_status EXCEPT !.running = FALSE, !.progress = scan_status["total"],
                        !.message = Msg("Scan complete! Found # ATH stocks.", scan_status["found"])]

\* app.py:113, 138-144  stdout is at end of file (the subprocess has exited
\* and every line was read): the loop ends, proc.wait() returns
EndScan(s) ==
    /\ thread[s] = "read"
    /\ pipe[s] = <<>>
    /\ proc[s].pc = "exit"
    /\ scan_status' = CompleteUpdate
    /\ thread' = [thread EXCEPT ![s] = "none"]
    /\ proc' = [proc EXCEPT ![s] = NoProc]
    /\ UNCHANGED <<response, pipe, data_file>>
    /\ UNCHANGED <<scanVars, saveVars, athVars, snapshot>>

\* ------------------------------------------------- scanner.py as subprocess
\* app.py:119-136  the reading loop acts on the line: one of its three
\* branches is taken
ActedOn(line) ==
    \/ ProgressMatches(line) # {}
    \/ Contains(line, "[star] ATH: ")
    \/ Contains(line, "DONE -- ")

\* scanner.py:28  the logging StreamHandler writes the lines to the pipe
\* that app.py:105-111 opened; once run_scan_background has left its loop
\* nobody reads the pipe and what is written is lost.
Emit(s, lines) ==
    pipe' = [pipe EXCEPT ![s] =
                IF Reading(s) THEN pipe[s] \o SelectSeq(lines, ActedOn) ELSE <<>>]

\* The subprocess ends; app.py:138 waits for it unless run_scan_background
\* has returned already.
Exited(s, how) ==
    IF Reading(s) THEN [proc[s] EXCEPT !.pc = "exit", !.ended = how] ELSE NoProc

\* scanner.py:271-279  main up to the call of run_scan.  The list that
\* load_or_fetch_symbols (scanner.py:172-188) returns has n entries.
MainLoad(s, n) ==
    /\ proc[s].pc = "main"
    /\ IF n = 0
       THEN /\ proc' = [proc EXCEPT ![s] = Exited(s, "scanned")]
            /\ Emit(s, <<BannerLine, NoSymbolsLine>>)
       ELSE /\ proc' = [proc EXCEPT ![s].pc = "scan", ![s].total = n]
            /\ Emit(s, <<BannerLine, ScanningLine(n)>>)
    /\ UNCHANGED <<scan_status, thread, response, data_file>>
    /\ UNCHANGED <<scanVars, saveVars, athVars, snapshot>>

\* scanner.py:275  load_or_fetch_symbols raises (the cache file does not
\* parse, scanner.py:176-177, or cannot be written, scanner.py:186-187):
\* nothing in main catches it and the subprocess dies with a traceback.
MainCrash(s) ==
    /\ proc[s].pc = "main"
    /\ proc' = [proc EXCEPT ![s] = Exited(s, "crashed")]
    /\ Emit(s, <<BannerLine, TracebackLine>>)
    /\ UNCHANGED <<scan_status, thread, response, data_file>>
    /\ UNCHANGED <<scanVars, saveVars, athVars, snapshot>>

\* scanner.py:239-250  one iteration of the as_completed loop; matched says
\* whether the future's result is a record
Completion(s, matched) ==
    /\ proc[s].pc = "scan"
    /\ proc[s].done < proc[s].total
    /\ LET d == proc[s].done + 1
           a == proc[s].ath + (IF matched THEN 1 ELSE 0)
       IN  /\ proc' = [proc EXCEPT ![s].done = d, ![s].ath = a]
           /\ Emit(s, (IF matched THEN <<AthLine(d)>> ELSE <<>>)
                      \o (IF d % PROGRESS_EVERY = 0
                          THEN <<ProgressLine(d, proc[s].total, a)>> ELSE <<>>))
    /\ UNCHANGED <<scan_status, thread, response, data_file>>
    /\ UNCHANGED <<scanVars, saveVars, athVars, snapshot>>

\* scanner.py:252-253, 280-281  run_scan returns, save_results writes the
\* report, main logs DONE and the subprocess exits
Finish(s) ==
    /\ proc[s].pc = "scan"
    /\ proc[s].done = proc[s].total
    /\ proc' = [proc EXCEPT ![s] = Exited(s, "scanned")]
    /\ data_file' = [exists |-> TRUE, total_scanned |-> proc[s].total,
                     ath_count |-> proc[s].ath]
    /\ Emit(s, <<DoneInLine(proc[s].ath), SavedLine,
                 DoneLine(proc[s].ath, proc[s].total)>>)
    /\ UNCHANGED <<scan_status, thread, response>>
    /\ UNCHANGED <<scanVars, saveVars, athVars, snapshot>>

\* ------------------------------------------------------------ check_ath
\* Text that is compared or concatenated is a sequence of character codes.
NSE    == <<78, 83, 69>>       \* "NSE"
BSE    == <<66, 83, 69>>       \* "BSE"
DOT_NS == <<46, 78, 83>>       \* ".NS"  scanner.py:48
DOT_BO == <<46, 66, 79>>       \* ".BO"  scanner.py:68

\* scanner.py:48  an entry of the list, as fetch_nse_symbols builds it
NseStock(sym, name) ==
    [symbol |-> sym \o DOT_NS, name |-> name, exchange |-> NSE, series |-> "EQ"]
\* scanner.py:68  and as fetch_bse_symbols builds it
BseStock(scrip, name) ==
    [symbol |-> scrip \o DOT_BO, name |-> name, exchange |-> BSE, series |-> "EQ"]

\* What ticker.history() (scanner.py:199-201) does: it raises, or returns
\* a frame whose rows are <<c>> for a close of c thousandths of a rupee
\* and <<>> for a missing close, oldest first.
Raised     == [kind |-> "raise", rows |-> <<>>]
Frame(rows) == [kind |-> "frame", rows |-> rows]

\* n rows with the close c
RECURSIVE Rep(_, _)
Rep(n, row) == IF n = 0 THEN <<>> ELSE <<row>> \o Rep(n - 1, row)

\* scanner.py:206  hist['Close'].dropna().values
DropNa(rows) ==
    LET kept == SelectSeq(rows, LAMBDA r : r # <<>>)
    IN  [i \in 1..Len(kept) |-> kept[i][1]]

\* scanner.py:210  closes.max()
RECURSIVE MaxOf(_)
MaxOf(closes) ==
    IF Len(closes) = 1 THEN closes[1]
    ELSE LET m == MaxOf(Tail(closes))
         IN  IF closes[1] >= m THEN closes[1] ELSE m

\* scanner.py:217-218  round(x, 2): thousandths to the nearest hundredth
Round2(x) ==
    LET r == x % 10
    IN  IF r < 5 THEN x - r ELSE x - r + 10

\* What a call of check_ath comes to: it returns value (<<>> is None,
\* <<r>> the record r) or an exception leaves it.
Returns(value) == [raised |-> FALSE, value |-> value]
Raises         == [raised |-> TRUE, value |-> <<>>]

\* check_ath without the try of scanner.py:198 and 224-226: what the
\* fetch raises leaves it
CheckAth_NoCatch(s, f) ==
    IF f.kind = "raise" THEN Raises
    ELSE IF Len(f.rows) = 0 \/ Len(f.rows) < MIN_ROWS THEN Returns(<<>>)
    ELSE LET closes == DropNa(f.rows)
         IN  IF Len(closes) = 0 THEN Returns(<<>>)
             ELSE IF closes[Len(closes)] * 100 >= MaxOf(closes) * ATH_THRESHOLD_PCT
                  THEN Returns(<< [symbol   |-> s.symbol,
                                   name     |-> s.name,
                                   price    |-> Round2(closes[Len(closes)]),
                                   ath      |-> Round2(MaxOf(closes)),
                                   exchange |-> s.exchange,
                                   series   |-> s.series] >>)
                  ELSE Returns(<<>>)

\* scanner.py:192-226  check_ath
CheckAth(s, f) ==
    IF f.kind = "raise" THEN Returns(<<>>)                                \* 224-226
    ELSE IF Len(f.rows) = 0 \/ Len(f.rows) < MIN_ROWS THEN Returns(<<>>)  \* 203-204
    ELSE LET closes == DropNa(f.rows)
         IN  IF Len(closes) = 0 THEN Returns(<<>>)                        \* 207-208
             ELSE LET all_time_high == MaxOf(closes)
                      latest_close  == closes[Len(closes)]
                  IN  IF latest_close * 100 >= all_time_high * ATH_THRESHOLD_PCT   \* 213
                      THEN Returns(<< [symbol   |-> s.symbol,
                                       name     |-> s.name,
                                       price    |-> Round2(latest_close),
                                       ath      |-> Round2(all_time_high),
                                       exchange |-> s.exchange,
                                       series   |-> s.series] >>)
                      ELSE Returns(<<>>)

\* ------------------------------------------------------------- run_scan
\* The list scanned in ScanSpec: n entries, NSE and BSE taking turns.
Listed(i) ==
    IF i % 2 = 1 THEN NseStock(<<64 + i>>, "nse") ELSE BseStock(<<64 + i>>, "bse")
Listing(n) == [i \in 1..n |-> Listed(i)]

\* What the fetch of an instrument can do in ScanSpec: raise (timeout,
\* transport error, malformed answer), return an empty frame (instrument
\* not found), or a history of MIN_ROWS rows that ends at or below its high.
FetchOutcomes ==
    { Raised,
      Frame(<<>>),
      Frame(Rep(MIN_ROWS, <<100000>>)),
      Frame(Rep(MIN_ROWS - 1, <<100000>>) \o << <<90000>> >>) }

Failed(f) == f.kind = "raise" \/ Len(f.rows) = 0

NoFuture == [state |-> "pending", fetched |-> Raised, outcome |-> Returns(<<>>), yielded |-> 0]

\* the futures whose check_ath a worker thread is running
Running == {i \in 1..submitted : fut[i].state = "running"}

\* scanner.py:238  executor.submit(check_ath, s) for the next s of symbols
Submit ==
    /\ run_pc = "submit"
    /\ submitted < Len(symbols)
    /\ submitted' = submitted + 1
    /\ fut' = Append(fut, NoFuture)
    /\ UNCHANGED <<symbols, done, run_pc, ath_stocks>>
    /\ UNCHANGED <<appVars, total_scanned, payload, athVars, snapshot>>

\* scanner.py:238-239  the dict is built: as_completed(futures) starts
Submitted ==
    /\ run_pc = "submit"
    /\ submitted = Len(symbols)
    /\ run_pc' = "loop"
    /\ UNCHANGED <<symbols, submitted, fut, done, ath_stocks>>
    /\ UNCHANGED <<appVars, total_scanned, payload, athVars, snapshot>>

\* an executor that starts a thread for every item
SlotFree_Always == TRUE

\* A worker may take a work item: the executor has at most max_workers
\* threads and each runs one item at a time.
SlotFree == Cardinality(Running) < MAX_WORKERS

\* scanner.py:237  ThreadPoolExecutor(max_workers=MAX_WORKERS): a worker
\* thread takes the oldest queued item and starts check_ath on it
WorkerStart(i) ==
    /\ i \in 1..submitted
    /\ fut[i].state = "pending"
    /\ \A j \in 1..(i - 1) : fut[j].state # "pending"
    /\ SlotFree
    /\ fut' = [fut EXCEPT ![i].state = "running"]
    /\ UNCHANGED <<symbols, submitted, done, run_pc, ath_stocks>>
    /\ UNCHANGED <<appVars, total_scanned, payload, athVars, snapshot>>

\* a worker that puts the item back in the queue when the fetch failed
WorkerFinish_Retry(i, f) ==
    /\ i \in 1..submitted
    /\ fut[i].state = "running"
    /\ fut' = IF Failed(f)
              THEN [fut EXCEPT ![i].state = "pending"]
              ELSE [fut EXCEPT ![i].state = "finished", ![i].fetched = f,
                               ![i].outcome = CheckAth(symbols[i], f)]
    /\ UNCHANGED <<symbols, submitted, done, run_pc, ath_stocks>>
    /\ UNCHANGED <<appVars, total_scanned, payload, athVars, snapshot>>

\* scanner.py:192-226  check_ath(symbols[i]) returns; f is what the fetch did
WorkerFinish(i, f) ==
    /\ i \in 1..submitted
    /\ fut[i].state = "running"
    /\ fut' = [fut EXCEPT ![i].state = "finished", ![i].fetched = f,
                          ![i].outcome = CheckAth(symbols[i], f)]
    /\ UNCHANGED <<symbols, submitted, done, run_pc, ath_stocks>>
    /\ UNCHANGED <<appVars, total_scanned, payload, athVars, snapshot>>

\* a loop that takes the futures in the order of submission
Yieldable_InOrder(i) ==
    /\ fut[i].state = "finished"
    /\ fut[i].yielded = 0
    /\ \A j \in 1..(i - 1) : fut[j].yielded > 0

\* as_completed yields each finished future once
Yieldable(i) == fut[i].state = "finished" /\ fut[i].yielded = 0

\* scanner.py:239-250  one iteration of `for future in as_completed(futures)`;
\* future.result() (241) raises what check_ath raised, which ends run_scan
Yield(i) ==
    /\ run_pc = "loop"
    /\ i \in 1..submitted
    /\ Yieldable(i)
    /\ done' = done + 1
    /\ fut' = [fut EXCEPT ![i].yielded = fut[i].yielded + 1]
    /\ IF fut[i].outcome.raised
       THEN /\ run_pc' = "raised"
            /\ UNCHANGED ath_stocks
       ELSE /\ ath_stocks' = IF fut[i].outcome.value # <<>>
                             THEN Append(ath_stocks, fut[i].outcome.value[1])
                             ELSE ath_stocks
            /\ UNCHANGED run_pc
    /\ UNCHANGED <<symbols, submitted>>
    /\ UNCHANGED <<appVars, total_scanned, payload, athVars, snapshot>>

\* a loop that may end as soon as no finished future is left to yield
Exhausted_Early == \A i \in 1..submitted : fut[i].state = "finished" => fut[i].yielded > 0

\* scanner.py:239  as_completed(futures) is exhausted: every future was yielded
Exhausted == \A i \in 1..submitted : fut[i].yielded > 0

\* scanner.py:239, 252-253  the loop and the with block end and run_scan
\* returns ath_stocks
Return ==
    /\ run_pc = "loop"
    /\ Exhausted
    /\ run_pc' = "returned"
    /\ UNCHANGED <<symbols, submitted, fut, done, ath_stocks>>
    /\ UNCHANGED <<appVars, total_scanned, payload, athVars, snapshot>>

\* --------------------------------------------------------- save_results
\* str < str: by the first character that differs, a proper prefix first
RECURSIVE StrLess(_, _)
StrLess(a, b) ==
    IF b = <<>> THEN FALSE
    ELSE IF a = <<>> THEN TRUE
    ELSE IF a[1] # b[1] THEN a[1] < b[1]
    ELSE StrLess(Tail(a), Tail(b))

\* a key that leaves the exchange out
SortKey_SymbolOnly(x) == x.symbol

\* scanner.py:264  key=lambda x: x['exchange'] + x['symbol']
SortKey(x) == x.exchange \o x.symbol

\* x put into the sorted list after every entry whose key is not greater
RECURSIVE Insert(_, _)
Insert(x, list) ==
    IF list = <<>> THEN <<x>>
    ELSE IF StrLess(SortKey(x), SortKey(list[1])) THEN <<x>> \o list
    ELSE <<list[1]>> \o Insert(x, Tail(list))

\* scanner.py:264  sorted(list, key=...): ascending by key, entries with
\* equal keys in the order they have in list
RECURSIVE Sorted(_)
Sorted(list) ==
    IF list = <<>> THEN <<>>
    ELSE Insert(list[Len(list)], Sorted(SubSeq(list, 1, Len(list) - 1)))

\* a payload whose ath_count is the number of instruments scanned
SavePayload_CountsScanned(stocks, total) ==
    << [scan_datetime |-> Now,
        total_scanned |-> total,
        ath_count     |-> total,
        stocks        |-> Sorted(stocks)] >>

\* scanner.py:258-265  <<p>> is the payload p written to OUTPUT_FILE
SavePayload(stocks, total) ==
    << [scan_datetime |-> Now,
        total_scanned |-> total,
        ath_count     |-> Len(stocks),
        stocks        |-> Sorted(stocks)] >>

\* scanner.py:256-268  save_results(ath_stocks, total_scanned)
SaveResults ==
    /\ payload = <<>>
    /\ payload' = SavePayload(ath_stocks, total_scanned)
    /\ UNCHANGED <<ath_stocks, total_scanned>>
    /\ UNCHANGED <<appVars, scanVars, athVars, snapshot>>

\* scanner.py:192  check_ath(stock) is called and the fetch does `fetch`
CallCheckAth ==
    /\ result = <<>>
    /\ result' = <<CheckAth(stock, fetch)>>
    /\ UNCHANGED <<stock, fetch>>
    /\ UNCHANGED <<appVars, scanVars, saveVars, snapshot>>

\* ------------------------------------------------------------------ Spec
ScanParked ==
    /\ symbols = <<>>
    /\ submitted = 0
    /\ fut = <<>>
    /\ done = 0
    /\ run_pc = "none"
SaveParked ==
    /\ ath_stocks = <<>>
    /\ total_scanned = 0
    /\ payload = <<>>
AthParked ==
    /\ stock = <<>>
    /\ fetch = <<>>
    /\ result = <<>>
AppParked ==
    /\ scan_status = InitialStatus
    /\ thread = [s \in ScanIds |-> "none"]
    /\ response = "none"
    /\ proc = [s \in ScanIds |-> NoProc]
    /\ pipe = [s \in ScanIds |-> <<>>]
    /\ data_file = NoReport
    /\ snapshot = <<>>

\* app.py:168-173  the server has started: scheduler running, no scan yet
Init ==
    /\ AppParked
    /\ ScanParked
    /\ SaveParked
    /\ AthParked

Next ==
    \/ PostScan
    \/ ApiTriggerScan
    \/ CronTrigger
    \/ \E s \in ScanIds : BeginScan(s)
    \/ \E s \in ScanIds : Popen(s)
    \/ \E s \in ScanIds : Raise(s)
    \/ \E s \in ScanIds : ReadLine(s)
    \/ \E s \in ScanIds : AthMessage(s)
    \/ \E s \in ScanIds : EndScan(s)
    \/ \E s \in ScanIds : \E n \in ListSizes : MainLoad(s, n)
    \/ \E s \in ScanIds : MainCrash(s)
    \/ \E s \in ScanIds : \E matched \in BOOLEAN : Completion(s, matched)
    \/ \E s \in ScanIds : Finish(s)

Spec == Init /\ [][Next]_vars

\* ----------------------------------------------------------- StatusSpec
\* Spec with clients that poll GET /api/status.
StatusNext == Next \/ ApiStatus

StatusSpec == Init /\ [][StatusNext]_vars

\* ------------------------------------------------------------- ScanSpec
\* scanner.py:230-235  run_scan(symbols) is called
ScanInit ==
    /\ AppParked
    /\ \E n \in 0..MaxSymbols : symbols = Listing(n)
    /\ submitted = 0
    /\ fut = <<>>
    /\ done = 0
    /\ run_pc = "submit"
    /\ ath_stocks = <<>>
    /\ total_scanned = 0
    /\ payload = <<>>
    /\ AthParked

ScanNext ==
    \/ Submit
    \/ Submitted
    \/ \E i \in 1..MaxSymbols : WorkerStart(i)
    \/ \E i \in 1..MaxSymbols : \E f \in FetchOutcomes : WorkerFinish(i, f)
    \/ \E i \in 1..MaxSymbols : Yield(i)
    \/ Return

ScanSpec == ScanInit /\ [][ScanNext]_vars

\* ------------------------------------------------------------- SaveSpec
\* The instruments of SaveSpec's records: the list is nse + bse
\* (scanner.py:183) and an instrument can be in it twice (TITAN is twice in
\* the fallback list, scanner.py:85 and 96).
SaveStocks ==
    { NseStock(<<65>>, "a"), NseStock(<<66>>, "b"),
      BseStock(<<65>>, "a"), BseStock(<<67>>, "c") }

\* The histories of SaveSpec's records: both end within the threshold of
\* the high; the second has a later close (a fetch made a moment later).
SaveFetches ==
    { Frame(Rep(MIN_ROWS, <<100000>>)),
      Frame(Rep(MIN_ROWS, <<100000>>) \o << <<101000>> >>) }

\* scanner.py:215-222  the records check_ath returns for them
MatchRecords ==
    { CheckAth(s, f).value[1] : s \in SaveStocks, f \in SaveFetches }

\* the lists of length n over S
ListsOf(S, n) == [1..n -> S]

\* scanner.py:280  save_results(ath, len(symbols)) is called: ath holds
\* records of some of the instruments scanned, in arrival order
SaveInit ==
    /\ AppParked
    /\ ScanParked
    /\ \E n \in 0..MaxMatches : ath_stocks \in ListsOf(MatchRecords, n)
    /\ total_scanned \in {Len(ath_stocks), Len(ath_stocks) + 1}
    /\ payload = <<>>
    /\ AthParked

SaveNext == SaveResults

SaveSpec == SaveInit /\ [][SaveNext]_vars

\* -------------------------------------------------------------- AthSpec
\* A row of a history: a missing close, or a close in thousandths.
Rows == { <<>>, <<0>>, <<97999>>, <<98000>>, <<100000>> }

\* The histories of AthSpec: up to MIN_ROWS rows with one close, then up
\* to MaxTail rows of any kind; or the fetch raises.
AthFetches ==
    {Raised} \cup
    { Frame(Rep(n, <<c>>) \o t) :
        n \in 0..MIN_ROWS, c \in {0, 98000, 100000},
        t \in UNION { ListsOf(Rows, k) : k \in 0..MaxTail } }

\* scanner.py:192, 238  a worker calls check_ath(stock)
AthInit ==
    /\ AppParked
    /\ ScanParked
    /\ SaveParked
    /\ stock \in {NseStock(<<65>>, "a"), BseStock(<<65>>, "a")}
    /\ fetch \in AthFetches
    /\ result = <<>>

AthNext == CallCheckAth

AthSpec == AthInit /\ [][AthNext]_vars

\* ------------------------------------------------------------- MainSpec
\* scanner.py:280  main passes what run_scan returned, and the length of
\* the list, to save_results
MainSaveResults ==
    /\ run_pc = "returned"
    /\ total_scanned' = Len(symbols)
    /\ payload' = SavePayload(ath_stocks, Len(symbols))
    /\ run_pc' = "saved"
    /\ UNCHANGED <<symbols, submitted, fut, done, ath_stocks>>
    /\ UNCHANGED <<appVars, athVars, snapshot>>

\* scanner.py:275-279  main has loaded a list that is not empty
MainInit ==
    /\ ScanInit
    /\ symbols # <<>>

MainNext == ScanNext \/ MainSaveResults

\* main from the call of run_scan to the report
MainSpec == MainInit /\ [][MainNext]_vars

\* --------------------------------------------------------- ScanFairSpec
\* The instruments whose fetch may take for ever: the first MAX_WORKERS - 1
\* of the list, which are the first to occupy a worker.
Slow == 1..(MAX_WORKERS - 1)

\* A step of run_scan or of a worker, other than the return of check_ath
\* for a slow instrument.
ScanStep ==
    \/ Submit
    \/ Submitted
    \/ \E i \in 1..MaxSymbols : WorkerStart(i)
    \/ \E i \in 1..MaxSymbols : Yield(i)
    \/ Return
    \/ \E i \in (1..MaxSymbols) \ Slow : \E f \in FetchOutcomes : WorkerFinish(i, f)

\* ScanSpec on a machine that keeps running: the threads of run_scan and of
\* the executor are scheduled, and every fetch but the slow ones returns
\* (yfinance's requests have a timeout).
ScanFairSpec == ScanSpec /\ WF_vars(ScanStep)

\* What run_scan_background does when it is scheduled, short of raising.
ThreadStep(s) ==
    BeginScan(s) \/ Popen(s) \/ ReadLine(s) \/ AthMessage(s) \/ EndScan(s)

\* What the scanner subprocess does.  Every network call in it has a
\* timeout (scanner.py:39, 62 and yfinance's history), so it keeps going.
ProcStep(s) ==
    \/ \E n \in ListSizes : MainLoad(s, n)
    \/ MainCrash(s)
    \/ \E matched \in BOOLEAN : Completion(s, matched)
    \/ Finish(s)

\* Spec on a machine that keeps running: while a thread or a subprocess
\* can take a step, one of them does.
FairSpec ==
    /\ Spec
    /\ WF_vars(\E s \in ScanIds : ThreadStep(s) \/ ProcStep(s))

\* ---------------------------------------------------------------- claims

\* run_scan_background has run its first statement and not returned, or
\* the subprocess it started is alive
InFlight(s) == thread[s] \in {"popen", "read", "ath_msg"} \/ Alive(s)

\* C1: at most one scan is in flight at any time: no two executions of
\* run_scan_background, and no two scanner subprocesses, overlap.
C1_SingleFlight ==
    Cardinality({s \in ScanIds : InFlight(s)}) <= 1

\* A step in which api_trigger_scan answers a request
Answered == response = "pending" /\ response' # "pending"

C3_EachHandledOnce ==
    /\ \A i \in 1..submitted : fut[i].yielded <= 1
    /\ run_pc = "returned"
         => /\ submitted = Len(symbols)
            /\ \A i \in 1..Len(symbols) : fut[i].yielded = 1
            /\ done = Len(symbols)

\* run_scan has returned from a list with a match, a miss and a failure
C3_Witness ==
    /\ run_pc = "returned"
    /\ done = Len(symbols)
    /\ \E i, j, k \in 1..Len(symbols) :
          /\ fut[i].outcome.value # <<>>
          /\ fut[j].outcome.value = <<>> /\ ~Failed(fut[j].fetched)
          /\ Failed(fut[k].fetched)

\* C4: when a scan of a list of N instruments ends (run_scan_background
\* leaves the reading loop normally after the subprocess scanned the list
\* or found it empty), scan_status["progress"] is N.
C4_ProgressIsTotal ==
    [][\A s \in ScanIds :
          (thread[s] = "read" /\ thread'[s] = "none" /\ proc[s].ended = "scanned")
             => scan_status'["progress"] = proc[s].total]_vars

\* C5: whenever scan_status["running"] is true it becomes false again: on
\* the normal path (app.py:139), when Popen or the reading loop raises
\* (app.py:147) and when the subprocess crashes.
C5_BackToIdle ==
    scan_status["running"] ~> ~scan_status["running"]

\* the except clause has run and every run_scan_background has returned
C5_Witness ==
    /\ ~scan_status["running"]
    /\ scan_status["message"] = Msg("Error: #", 0)
    /\ \A s \in ScanIds : ~Executing(s)

\* the records in ath_stocks that are about instrument i
RecordsOf(i) ==
    {n \in 1..Len(ath_stocks) : ath_stocks[n].symbol = symbols[i].symbol}

\* C6: no failed fetch ends run_scan with an exception; a failed fetch
\* leaves no record in ath_stocks; and when run_scan returns, every
\* instrument whose fetch failed was counted.
C6_FailuresDoNotAbort ==
    /\ run_pc # "raised"
    /\ \A i \in 1..submitted :
          (fut[i].state = "finished" /\ Failed(fut[i].fetched))
             => /\ ~fut[i].outcome.raised
                /\ fut[i].outcome.value = <<>>
                /\ RecordsOf(i) = {}
    /\ run_pc = "returned"
         => /\ done = Len(symbols)
            /\ \A i \in 1..Len(symbols) : Failed(fut[i].fetched) => fut[i].yielded = 1

\* run_scan has returned from a list in which a fetch raised, another
\* found nothing and a third gave a match
C6_Witness ==
    /\ run_pc = "returned"
    /\ \E i, j, k \in 1..Len(symbols) :
          /\ fut[i].fetched = Raised /\ fut[i].yielded = 1
          /\ fut[j].fetched = Frame(<<>>) /\ fut[j].yielded = 1
          /\ RecordsOf(k) # {}

\* C7: in every state of a scan at most MAX_WORKERS = 4 calls of check_ath
\* are under way (so a further call starts only once one has returned).
C7_BoundedInFlight ==
    /\ Cardinality(Running) <= MAX_WORKERS
    /\ MAX_WORKERS = 4

\* MAX_WORKERS calls are under way and an instrument is waiting for a worker
C7_Witness ==
    /\ Cardinality(Running) = MAX_WORKERS
    /\ \E i \in 1..submitted : fut[i].state = "pending"

\* (exchange, symbol) of r1 is at most that of r2, as a pair
PairLeq(r1, r2) ==
    \/ StrLess(r1.exchange, r2.exchange)
    \/ /\ r1.exchange = r2.exchange
       /\ (r1.symbol = r2.symbol \/ StrLess(r1.symbol, r2.symbol))

\* C8: in the report save_results writes, every two adjacent records of
\* "stocks" are in ascending order of the pair (exchange, symbol), and the
\* report holds the records it was given, each as often as given.
C8_SortedByExchangeSymbol ==
    payload # <<>>
      => LET stocks == payload[1].stocks
         IN  /\ Len(stocks) = Len(ath_stocks)
             /\ \A r \in MatchRecords :
                   Cardinality({n \in 1..Len(stocks) : stocks[n] = r})
                     = Cardinality({n \in 1..Len(ath_stocks) : ath_stocks[n] = r})
             /\ \A n \in 1..(Len(stocks) - 1) : PairLeq(stocks[n], stocks[n + 1])

\* a report was written from records of both exchanges that arrived in
\* another order than the report's
C8_Witness ==
    /\ payload # <<>>
    /\ payload[1].stocks # ath_stocks
    /\ \E m, n \in 1..Len(ath_stocks) :
          /\ m < n
          /\ ath_stocks[m].exchange = NSE
          /\ ath_stocks[n].exchange = BSE
          /\ StrLess(ath_stocks[m].symbol, ath_stocks[n].symbol)

\* the orders in which the records of list can arrive
ArrivalOrders(list) ==
    { [n \in 1..Len(list) |-> list[f[n]]] : f \in Permutations(1..Len(list)) }

\* C9: the report's "stocks" is the same for every order in which the
\* records given to save_results could have arrived.
C9_OrderIndependent ==
    payload # <<>>
      => \A other \in ArrivalOrders(ath_stocks) :
            SavePayload(other, total_scanned)[1].stocks = payload[1].stocks

\* the valid closes of a history: not missing, and positive
ValidCloses(rows) == SelectSeq(rows, LAMBDA r : r # <<>> /\ r[1] > 0)

\* C10: check_ath returns None for every history with fewer than MIN_ROWS
\* valid closes.
C10_ShortHistoryIsNone ==
    (result # <<>> /\ fetch.kind = "frame" /\ Len(ValidCloses(fetch.rows)) < MIN_ROWS)
      => (~result[1].raised /\ result[1].value = <<>>)

\* the closes of a history that are valid, oldest first
ValidValues(rows) ==
    LET kept == ValidCloses(rows)
    IN  [i \in 1..Len(kept) |-> kept[i][1]]

\* the history has at least MIN_ROWS valid closes
Evaluable(f) == f.kind = "frame" /\ Len(ValidCloses(f.rows)) >= MIN_ROWS

\* C11: for every evaluable history check_ath returns a record iff the most
\* recent valid close is at least ATH_THRESHOLD times the maximum of the
\* valid closes; the record carries that close and that maximum (to the
\* hundredth) and the instrument's fields; otherwise it returns None.
C11_MatchIffWithinThreshold ==
    (result # <<>> /\ Evaluable(fetch))
      => LET v      == ValidValues(fetch.rows)
             high   == MaxOf(v)
             latest == v[Len(v)]
         IN  /\ ~result[1].raised
             /\ IF latest * 100 >= high * ATH_THRESHOLD_PCT
                THEN result[1].value = << [symbol   |-> stock.symbol,
                                           name     |-> stock.name,
                                           price    |-> Round2(latest),
                                           ath      |-> Round2(high),
                                           exchange |-> stock.exchange,
                                           series   |-> stock.series] >>
                ELSE result[1].value = <<>>

\* C12: check_ath returns no record whose all-time high or whose price is
\* not positive.
C12_NoNonPositiveMatch ==
    (result # <<>> /\ result[1].value # <<>>)
      => /\ result[1].value[1].ath > 0
         /\ result[1].value[1].price > 0

\* the subprocess of s finds its list empty and exits (scanner.py:276-278)
\* while run_scan_background is reading its output
EmptyListExit(s) ==
    /\ proc[s].pc = "main"
    /\ proc'[s].pc = "exit"
    /\ proc'[s].ended = "scanned"

\* C13: when the list is empty the scan publishes a report with no matches
\* and total_scanned = 0.
C13_EmptyListReport ==
    [][\A s \in ScanIds :
          EmptyListExit(s)
             => data_file' = [exists |-> TRUE, total_scanned |-> 0, ath_count |-> 0]]_vars

\* C14: when the subprocess has died of an exception before writing a
\* report, run_scan_background ends with running false and a message that
\* describes the failure, not with the message of a completed scan.
C14_FailureIsReported ==
    [][\A s \in ScanIds :
          (thread[s] = "read" /\ thread'[s] = "none" /\ proc[s].ended = "crashed")
             => /\ ~scan_status'["running"]
                /\ scan_status'["message"] = Msg("Error: #", 0)]_vars

\* a step in which an execution of run_scan_background runs app.py:95-101
ScanStarts == \E s \in ScanIds : thread[s] = "start" /\ thread'[s] = "popen"

\* C16: the start of a scan sets progress = 0, found = 0 and running = true;
\* while running stays true progress and found do not decrease; while
\* running stays false they do not change.
C16_Lifecycle ==
    [][/\ ScanStarts
          => /\ scan_status'["running"]
             /\ scan_status'["progress"] = 0
             /\ scan_status'["found"] = 0
       /\ (scan_status["running"] /\ scan_status'["running"])
          => /\ scan_status'["progress"] >= scan_status["progress"]
             /\ scan_status'["found"] >= scan_status["found"]
       /\ (~scan_status["running"] /\ ~scan_status'["running"])
          => /\ scan_status'["progress"] = scan_status["progress"]
             /\ scan_status'["found"] = scan_status["found"]]_vars

\* C20: in every state found <= progress <= total in scan_status.
C20_CountersOrdered ==
    /\ scan_status["found"] <= scan_status["progress"]
    /\ scan_status["progress"] <= scan_status["total"]

\* run_scan_background is between the two statements of the match
\* branch: found is counted, the message is not yet the match's
MidUpdate == \E s \in ScanIds : thread[s] = "ath_msg"

\* C15: GET /api/status is never answered from a scan_status that holds
\* part of an update step only.
C15_NoTornSnapshot ==
    [][ApiStatus => ~MidUpdate]_vars

\* C17: run_scan submits one work item per entry of the list, and an item
\* that a worker has taken is never waiting for a worker again: check_ath
\* is called at most once for it, and once it has returned the item stays
\* finished with the fetch it had.
C17_NoRetry ==
    /\ [](submitted <= Len(symbols) /\ Len(fut) = submitted)
    /\ [][\A i \in 1..submitted :
             fut[i].state # "pending"
                => /\ fut'[i].state # "pending"
                   /\ fut[i].state = "finished"
                        => (fut'[i].state = "finished" /\ fut'[i].fetched = fut[i].fetched)]_vars

\* run_scan has returned from a list of several instruments whose fetches
\* all failed, with no record
C17_Witness ==
    /\ run_pc = "returned"
    /\ Len(symbols) >= 2
    /\ \A i \in 1..Len(symbols) : Failed(fut[i].fetched) /\ fut[i].yielded = 1
    /\ ath_stocks = <<>>

\* the completion of instrument j was handled: counted and, when it
\* matched, recorded
Handled(j) ==
    /\ j <= submitted
    /\ fut[j].yielded = 1
    /\ fut[j].outcome.value # <<>> => RecordsOf(j) # {}

\* C18: whether or not the fetches of the slow instruments ever return,
\* every other instrument of the list is eventually fetched and handled.
C18_OthersNotBlocked ==
    <>(\A j \in 1..Len(symbols) : j \notin Slow => Handled(j))

\* every slow instrument is still being fetched and all the others were handled
C18_Witness ==
    /\ Len(symbols) > MAX_WORKERS
    /\ submitted = Len(symbols)
    /\ \A i \in Slow : fut[i].state = "running"
    /\ \A j \in 1..Len(symbols) : j \notin Slow => Handled(j)
    /\ done = Len(symbols) - Cardinality(Slow)

\* the entries of the list whose check_ath returned a record
Matched == {i \in 1..Len(symbols) : fut[i].outcome.value # <<>>}

\* C19: in the report main writes, total_scanned is the length of the
\* list, ath_count is the length of "stocks", and "stocks" holds the record
\* of every entry whose check returned one, once, and nothing else.
C19_ReportMatchesScan ==
    payload # <<>>
      => LET p == payload[1]
         IN  /\ p.total_scanned = Len(symbols)
             /\ p.ath_count = Len(p.stocks)
             /\ Len(p.stocks) = Cardinality(Matched)
             /\ \A i \in Matched :
                   Cardinality({n \in 1..Len(p.stocks) :
                                   p.stocks[n] = fut[i].outcome.value[1]}) = 1
             /\ \A i \in (1..Len(symbols)) \ Matched :
                   \A n \in 1..Len(p.stocks) : p.stocks[n].symbol # symbols[i].symbol

\* a report was written after a scan with matches and misses, the matches
\* having arrived in another order than the report's
C19_Witness ==
    /\ payload # <<>>
    /\ Cardinality(Matched) >= 2
    /\ Cardinality(Matched) < Len(symbols)
    /\ payload[1].stocks # ath_stocks
    /\ payload[1].ath_count < payload[1].total_scanned

\* C21: whenever scan_status["running"] is false, no execution of
\* run_scan_background has a scan under way and no scanner subprocess is
\* alive.
C21_IdleMeansNoScan ==
    ~scan_status["running"] => \A s \in ScanIds : ~InFlight(s)

====
